---------------------------- MODULE Spec2Model ----------------------------
(***************************************************************************)
(* Model of the clinical-programs serverless handler                       *)
(* (api/clinical-programs.ts): method and configuration checks, the        *)
(* listing path, the parent lookup by slug, the four concurrent child      *)
(* fetches, the assembly of the detail object, and the helpers it uses     *)
(* (escapeFormulaString, firstAttachmentUrl, the overview split).          *)
(*                                                                         *)
(* JavaScript strings whose characters matter (the slug, the overview      *)
(* text, the filter formulas) are sequences of one-character strings.      *)
(***************************************************************************)
EXTENDS Integers, Sequences, FiniteSets, TLC

(***************************************************************************)
(* Characters                                                              *)
(***************************************************************************)
SQ == "'"
BS == "\\"
SP == " "
NL == "\n"
CR == "\r"

\* The characters String.prototype.trim removes and the regex class \s
\* matches, among the characters of the model.
IsSpace(c) == c \in {SP, NL, CR}

\* Bounds of the input strings.
MaxSlugLen == 4
MaxTextLen == 5

SlugChars == {"a", SQ, BS, SP, "}"}

RECURSIVE SeqsUpTo(_, _)
SeqsUpTo(S, n) ==
  IF n = 0 THEN {<<>>}
  ELSE LET shorter == SeqsUpTo(S, n - 1)
       IN  shorter \cup {Append(s, c) : s \in {t \in shorter : Len(t) = n - 1}, c \in S}

(***************************************************************************)
(* String.prototype.trim                                                   *)
(***************************************************************************)
RECURSIVE TrimStart(_)
TrimStart(s) ==
  IF s # <<>> /\ IsSpace(Head(s)) THEN TrimStart(Tail(s)) ELSE s

RECURSIVE TrimEnd(_)
TrimEnd(s) ==
  IF s # <<>> /\ IsSpace(s[Len(s)]) THEN TrimEnd(SubSeq(s, 1, Len(s) - 1)) ELSE s

Trim(s) == TrimEnd(TrimStart(s))

(***************************************************************************)
(* escapeFormulaString: value.replace(/'/g, "''")                          *)
(***************************************************************************)
RECURSIVE ReplaceAllQuotes(_)
ReplaceAllQuotes(value) ==
  IF value = <<>> THEN <<>>
  ELSE (IF Head(value) = SQ THEN <<SQ, SQ>> ELSE <<Head(value)>>)
         \o ReplaceAllQuotes(Tail(value))

\* The same replace without the g flag: only the first quote is doubled.
RECURSIVE ReplaceFirstQuote(_)
ReplaceFirstQuote(value) ==
  IF value = <<>> THEN <<>>
  ELSE IF Head(value) = SQ THEN <<SQ, SQ>> \o Tail(value)
  ELSE <<Head(value)>> \o ReplaceFirstQuote(Tail(value))

escapeFormulaString(value) == ReplaceAllQuotes(value)

(***************************************************************************)
(* The two filter formulas the handler writes around the escaped slug.     *)
(* The text before and after the literal is kept as one element each: it   *)
(* holds no quote and no backslash.                                        *)
(***************************************************************************)
ParentFilter(esc) == <<"{programSlug} = ", SQ>> \o esc \o <<SQ>>
ChildFilter(esc)  == <<SQ>> \o esc \o <<SQ, " IN {programSlug}">>

\* Index of the quote the handler opens the literal with, and of the one it
\* closes it with.
ParentOpen == 2
ParentClose(esc) == Len(esc) + 3
ChildOpen == 1
ChildClose(esc) == Len(esc) + 2

(***************************************************************************)
(* The store's reading of a single-quoted literal.  The formula language is*)
(* the store's, not the handler's.  In both readings a doubled quote       *)
(* stands for one quote, as escapeFormulaString takes it to; in the        *)
(* "backslash" reading a backslash also escapes the character after it,    *)
(* in the "doubled" reading it is a character like any other.  LiteralEnd  *)
(* is the index of the quote that ends the literal opened at index open,   *)
(* 0 when none does.                                                       *)
(***************************************************************************)
Dialects == {"doubled", "backslash"}

RECURSIVE ScanLiteral(_, _, _)
ScanLiteral(f, i, d) ==
  IF i > Len(f) THEN 0
  ELSE IF d = "backslash" /\ f[i] = BS
         THEN IF i + 1 > Len(f) THEN 0 ELSE ScanLiteral(f, i + 2, d)
  ELSE IF f[i] = SQ
         THEN IF i + 1 <= Len(f) /\ f[i + 1] = SQ
                THEN ScanLiteral(f, i + 2, d)
                ELSE i
  ELSE ScanLiteral(f, i + 1, d)

LiteralEnd(f, open, d) == ScanLiteral(f, open + 1, d)


(***************************************************************************)
(* JavaScript values of record fields, tagged by what typeof and           *)
(* Array.isArray tell of them.  JsThrow stands for a TypeError raised      *)
(* while evaluating an expression.                                         *)
(***************************************************************************)
JsUndefined == [t |-> "undefined"]
JsNull      == [t |-> "null"]
JsThrow     == [t |-> "throw"]
JsStr(s)    == [t |-> "string", v |-> s]
\* A string kept character by character (typeof gives 'string' for it too).
JsText(cs)  == [t |-> "text", v |-> cs]
JsNum(n)    == [t |-> "number", v |-> n]
JsArr(l)    == [t |-> "array", v |-> l]
JsObj(u)    == [t |-> "object", url |-> u]

\* ToBoolean
Truthy(x) ==
  CASE x.t \in {"undefined", "null"} -> FALSE
    [] x.t = "string" -> x.v # ""
    [] x.t = "text" -> x.v # <<>>
    [] x.t = "number" -> x.v # 0
    [] OTHER -> TRUE

\* a || b, with b evaluated only when a is falsy
JsOr(a, b) == IF a = JsThrow THEN JsThrow ELSE IF Truthy(a) THEN a ELSE b

\* x.url: a TypeError on undefined and null, undefined on a value that has
\* no such property
GetUrl(x) ==
  CASE x.t \in {"undefined", "null"} -> JsThrow
    [] x.t = "object" -> x.url
    [] OTHER -> JsUndefined

\* x?.url
OptGetUrl(x) == IF x.t \in {"undefined", "null"} THEN JsUndefined ELSE GetUrl(x)

(***************************************************************************)
(* firstAttachmentUrl                                                      *)
(***************************************************************************)
firstAttachmentUrl(attachments) ==
  LET list == JsOr(attachments, JsArr(<<>>))
  IN  IF list.t = "array" /\ Len(list.v) > 0 /\ Truthy(OptGetUrl(list.v[1]))
        THEN GetUrl(list.v[1])
        ELSE JsUndefined

(***************************************************************************)
(* The url / fileUrl expression of the four child mappings:                *)
(*   (typeof link === 'string' ? link : undefined)                         *)
(*     || firstAttachmentUrl(file) || undefined                            *)
(***************************************************************************)
\* The same expression with the attachment tried before the link.
ResolveUrlFileFirst(link, file) ==
  JsOr(JsOr(firstAttachmentUrl(file),
            IF link.t = "string" THEN link ELSE JsUndefined),
       JsUndefined)

ResolveUrl(link, file) ==
  JsOr(JsOr(IF link.t = "string" THEN link ELSE JsUndefined,
            firstAttachmentUrl(file)),
       JsUndefined)

(***************************************************************************)
(* The overview split:                                                     *)
(*   overviewRaw ? overviewRaw.split(/\n\s*\n|\r\n\r\n|\n/g)               *)
(*                   .map(s => s.trim()).filter(Boolean) : []              *)
(***************************************************************************)
\* \n\s*\n at index i: \s* is greedy, so the match runs to the last newline
\* that only white space separates from the first.  0: no match.
BlankLineEnd(text, i) ==
  LET ends == {j \in (i + 1)..Len(text) :
                 /\ text[j] = NL
                 /\ \A k \in (i + 1)..(j - 1) : IsSpace(text[k])}
  IN  IF text[i] = NL /\ ends # {} THEN CHOOSE j \in ends : \A k \in ends : k <= j
      ELSE 0

\* Length of the match of the alternation at index i, 0 when none starts
\* there.  The alternatives are tried in the order written.
SeparatorLen(text, i) ==
  IF BlankLineEnd(text, i) # 0 THEN BlankLineEnd(text, i) - i + 1
  ELSE IF i + 3 <= Len(text) /\ SubSeq(text, i, i + 3) = <<CR, NL, CR, NL>> THEN 4
  ELSE IF text[i] = NL THEN 1
  ELSE 0

\* String.prototype.split by the separator regex: the pieces between the
\* matches, found left to right, the empty ones included.
RECURSIVE SplitFrom(_, _, _)
SplitFrom(text, i, start) ==
  IF i > Len(text) THEN <<SubSeq(text, start, Len(text))>>
  ELSE IF SeparatorLen(text, i) > 0
         THEN <<SubSeq(text, start, i - 1)>>
                \o SplitFrom(text, i + SeparatorLen(text, i), i + SeparatorLen(text, i))
  ELSE SplitFrom(text, i + 1, start)

SplitOverview(text) == SplitFrom(text, 1, 1)

MapTrim(pieces) == [i \in 1..Len(pieces) |-> Trim(pieces[i])]

\* filter(Boolean) on strings: the non-empty ones, in order
FilterNonEmpty(pieces) == SelectSeq(pieces, LAMBDA s : s # <<>>)

\* The same pipeline without the filter(Boolean) step.
OverviewNoFilter(overviewRaw) ==
  IF overviewRaw # <<>> THEN MapTrim(SplitOverview(overviewRaw)) ELSE <<>>

Overview(overviewRaw) ==
  IF overviewRaw # <<>>
    THEN FilterNonEmpty(MapTrim(SplitOverview(overviewRaw)))
    ELSE <<>>

(***************************************************************************)
(* The four child mappings of the detail object.  A child record is        *)
(* [id, name, link, file, extra, sortOrder, programSlug]: link is          *)
(* fields[moduleLink | fileLink | formLink | resourceLink], file the       *)
(* attachment field, extra moduleLength or formCategory.                   *)
(***************************************************************************)
MapModule(m) ==
  [id |-> m.id, name |-> JsOr(m.name, JsStr("")),
   duration |-> JsOr(m.extra, JsUndefined), description |-> JsUndefined,
   url |-> ResolveUrl(m.link, m.file)]

MapManual(doc) ==
  [id |-> doc.id, name |-> JsOr(doc.name, JsStr("")),
   fileUrl |-> ResolveUrl(doc.link, doc.file)]

MapForm(f) ==
  [id |-> f.id, name |-> JsOr(f.name, JsStr("")),
   category |-> JsOr(f.extra, JsUndefined),
   fileUrl |-> ResolveUrl(f.link, f.file)]

MapResource(r) ==
  [id |-> r.id, name |-> JsOr(r.name, JsStr("")), type |-> JsUndefined,
   url |-> ResolveUrl(r.link, r.file)]

\* Array.prototype.map keeps the order of the array it maps.
\* The same mapping over the array reversed.
MapModulesReversed(modules) ==
  [i \in 1..Len(modules) |-> MapModule(modules[Len(modules) + 1 - i])]

MapModules(modules)     == [i \in 1..Len(modules) |-> MapModule(modules[i])]
MapManuals(manuals)     == [i \in 1..Len(manuals) |-> MapManual(manuals[i])]
MapForms(forms)         == [i \in 1..Len(forms) |-> MapForm(forms[i])]
MapResources(resources) == [i \in 1..Len(resources) |-> MapResource(resources[i])]

(***************************************************************************)
(* State                                                                   *)
(***************************************************************************)
VARIABLES
  env,      \* process.env: AIRTABLE_API_KEY and AIRTABLE_BASE_ID
  dialect,  \* how the store reads a string literal of a formula
  store,    \* the records of the five tables, in the store's own order
  req,      \* req[r]: method and slug query parameter of request r
  pc,       \* pc[r]: where the handler of request r stands
  fetch,    \* fetch[r][q]: none | pending | ok | failed, per store query
  issued,   \* issued[r]: the store queries of request r, in issue order
  got,      \* got[r]: what the handler holds of the awaited results
  res,      \* res[r]: statusCode, headers, body and number of res.end calls
  log,      \* console.error lines
  fn,       \* helper under check, "handler" when the handler runs
  arg,      \* the helper's input
  out,      \* the helper's result
  page      \* the ProgramDetail page: its state, its effect and its loads

hvars == <<env, dialect, store, req, pc, fetch, issued, got, res, log>>
pvars == <<fn, arg, out, page>>
vars  == <<env, dialect, store, req, pc, fetch, issued, got, res, log, fn, arg, out,
          page>>

NotRun == [kind |-> "none"]

\* No page is rendered.
NoPage == [kind |-> "none"]

(***************************************************************************)
(* The record store                                                        *)
(***************************************************************************)
ChildTables == {"TrainingModules", "ProtocolManuals", "DocumentationForms",
                "AdditionalResources"}
Tables == {"ClinicalPrograms"} \cup ChildTables

\* The numbers the handler passes to select().
ListPageSize      == 50
ParentMaxRecords  == 1
ModulesPageSize   == 100
ManualsPageSize   == 100
FormsPageSize     == 200
ResourcesPageSize == 100

ChildPageSize(t) ==
  CASE t = "TrainingModules" -> ModulesPageSize
    [] t = "ProtocolManuals" -> ManualsPageSize
    [] t = "DocumentationForms" -> FormsPageSize
    [] t = "AdditionalResources" -> ResourcesPageSize

\* How many records more than a page the large store holds per table.
Extra == 1

Program(id, slug, name, description, overview) ==
  [id |-> id, programSlug |-> slug, programName |-> name,
   programDescription |-> description, programOverview |-> overview]

Child(id, slugs, name, link, file, extra, sortOrder) ==
  [id |-> id, programSlug |-> slugs, name |-> name, link |-> link,
   file |-> file, extra |-> extra, sortOrder |-> sortOrder]

SlugA == <<"a">>
SlugB == <<"b">>
SlugQ == <<"a", SQ>>

EmptyStore == [t \in Tables |-> <<>>]

SmallStore ==
  [ClinicalPrograms |->
     << Program(1, SlugA, JsStr("Alpha"), JsStr("First"),
                JsText(<<"A", NL, NL, "B">>)),
        Program(2, SlugQ, JsStr("Quote"), JsUndefined, JsUndefined),
        Program(3, SlugA, JsStr("Alpha again"), JsStr("Same slug"),
                JsText(<<"C">>)),
        Program(4, SlugB, JsUndefined, JsStr("No children"), JsText(<<>>)) >>,
   TrainingModules |->
     << Child(11, <<SlugA>>, JsStr("M one"), JsStr("http://l/1"),
              JsArr(<<JsObj(JsStr("http://f/1"))>>), JsStr("10 min"), 2),
        Child(12, <<SlugA, SlugQ>>, JsStr("M two"), JsUndefined,
              JsArr(<<JsObj(JsStr("http://f/2")), JsObj(JsStr("http://f/3"))>>),
              JsUndefined, 1),
        Child(13, <<SlugQ>>, JsUndefined, JsUndefined, JsUndefined, JsUndefined, 1),
        Child(14, <<SlugA>>, JsStr("M four"), JsStr(""), JsUndefined,
              JsStr("5 min"), 1) >>,
   ProtocolManuals |->
     << Child(21, <<SlugA>>, JsStr("P one"), JsUndefined,
              JsArr(<<JsObj(JsStr("http://f/4"))>>), JsUndefined, 0) >>,
   DocumentationForms |->
     << Child(31, <<SlugA>>, JsStr("F one"), JsStr("http://l/5"), JsUndefined,
              JsStr("intake"), 0),
        Child(32, <<SlugQ>>, JsStr("F two"), JsUndefined, JsArr(<<>>),
              JsUndefined, 0) >>,
   AdditionalResources |-> << >>]

\* More records than one page in every table, all children linked to SlugA.
LargeTable(t, n) ==
  IF t = "ClinicalPrograms"
    THEN [i \in 1..n |->
            Program(i, IF i = 1 THEN SlugA ELSE SlugB, JsStr("Program"),
                    JsStr("Listed"), JsUndefined)]
    ELSE [i \in 1..n |->
            Child(i, <<SlugA>>, JsStr("Item"), JsUndefined, JsUndefined,
                  JsUndefined, n - i)]

LargeStore ==
  [t \in Tables |->
     LargeTable(t, Extra + (IF t = "ClinicalPrograms" THEN ListPageSize
                            ELSE ChildPageSize(t)))]

Stores == {EmptyStore, SmallStore, LargeStore}

(***************************************************************************)
(* A select() query and what the store answers to it.                      *)
(***************************************************************************)
NoFormula == <<>>

Query(table, formula, maxRecords, pageSize, sort, method) ==
  [table |-> table, filterByFormula |-> formula, maxRecords |-> maxRecords,
   pageSize |-> pageSize, sort |-> sort, method |-> method]

\* The value of the literal between the quotes at open and close, as the
\* store reads it.
RECURSIVE Unescape(_, _)
Unescape(lit, d) ==
  IF lit = <<>> THEN <<>>
  ELSE IF d = "backslash" /\ Head(lit) = BS /\ Len(lit) >= 2
         THEN <<lit[2]>> \o Unescape(SubSeq(lit, 3, Len(lit)), d)
  ELSE IF Head(lit) = SQ /\ Len(lit) >= 2 /\ lit[2] = SQ
         THEN <<SQ>> \o Unescape(SubSeq(lit, 3, Len(lit)), d)
  ELSE <<Head(lit)>> \o Unescape(Tail(lit), d)

\* The formula is the one the handler meant when the literal ends at the
\* last quote of the formula.
FormulaOpen(f)  == IF f[1] = SQ THEN ChildOpen ELSE ParentOpen
FormulaClose(f) == IF f[1] = SQ THEN Len(f) - 1 ELSE Len(f)
WellFormed(f, d) == LiteralEnd(f, FormulaOpen(f), d) = FormulaClose(f)
LiteralValue(f, d) ==
  Unescape(SubSeq(f, FormulaOpen(f) + 1, FormulaClose(f) - 1), d)

InSeq(x, s) == \E i \in 1..Len(s) : s[i] = x

\* {programSlug} = '<lit>' on the parent table, '<lit>' IN {programSlug} on a
\* child table.
Matches(rec, f, d) ==
  IF f = NoFormula THEN TRUE
  ELSE IF f[1] = SQ THEN InSeq(LiteralValue(f, d), rec.programSlug)
  ELSE rec.programSlug = LiteralValue(f, d)

\* sort: [{field: 'sortOrder', direction: 'asc'}].  The store does not say
\* how it orders records of equal sortOrder: ties is "kept" or "reversed".
SortPosition(recs, i, ties) ==
  1 + Cardinality({j \in 1..Len(recs) :
        \/ recs[j].sortOrder < recs[i].sortOrder
        \/ /\ recs[j].sortOrder = recs[i].sortOrder
           /\ IF ties = "kept" THEN j < i ELSE j > i})

SortBySortOrder(recs, ties) ==
  [k \in 1..Len(recs) |->
     recs[CHOOSE i \in 1..Len(recs) : SortPosition(recs, i, ties) = k]]

Take(recs, n) == SubSeq(recs, 1, IF Len(recs) < n THEN Len(recs) ELSE n)

\* all(): the pages of pageSize records each, one after the other, until
\* the store has no more.
RECURSIVE AllPages(_, _)
AllPages(recs, pageSize) ==
  IF Len(recs) <= pageSize THEN recs
  ELSE Take(recs, pageSize)
         \o AllPages(SubSeq(recs, pageSize + 1, Len(recs)), pageSize)

FetchAll(recs, pageSize) == AllPages(recs, pageSize)

\* The records a query selects, before paging.
Selected(table, q, d, ties) ==
  LET matching == SelectSeq(table, LAMBDA rec : Matches(rec, q.filterByFormula, d))
      ordered  == IF q.sort THEN SortBySortOrder(matching, ties) ELSE matching
  IN  IF q.maxRecords > 0 THEN Take(ordered, q.maxRecords) ELSE ordered

\* What the awaited call resolves to.  firstPage() gives the first page; no
\* query of the handler sets both maxRecords and pageSize.
Resolved(table, q, d, ties) ==
  IF q.method = "all" THEN FetchAll(Selected(table, q, d, ties), q.pageSize)
  ELSE Selected(table, q, d, ties)

\* The answers the store may give.  A formula whose literal does not end at
\* the quote the handler closed it with is not the formula the handler
\* meant: the store may answer it with no record or with any record.
Answers(table, q, d) ==
  IF q.filterByFormula # NoFormula /\ ~WellFormed(q.filterByFormula, d)
    THEN {<<>>, IF q.maxRecords > 0 THEN Take(table, q.maxRecords) ELSE table}
    ELSE {Resolved(table, q, d, ties) : ties \in {"kept", "reversed"}}

\* The messages of the errors a store call may reject with.
StoreErrors == {"NOT_AUTHORIZED", "RATE_LIMIT_REACHED"}

(***************************************************************************)
(* The handler                                                             *)
(***************************************************************************)
Requests == {1, 2}

QueryNames == {"list", "parent"} \cup ChildTables

Get == JsStr("GET")
Methods == {Get, JsStr("POST"), JsUndefined}
EnvValues == {JsUndefined, JsStr(""), JsStr("set")}
SlugParams ==
  {JsUndefined} \cup
  {JsText(cs) : cs \in {<<>>, <<SP>>, SlugA, <<SP, "a", SP>>, SlugB, SlugQ,
                        <<BS>>, <<"c">>}}

MethodNotAllowedMessage == "Method Not Allowed"
\* The configuration message replaced by the text of the catch block.
ConfigMessageGeneric == "Internal Server Error"

ConfigMessage ==
  "Airtable is not configured. Set AIRTABLE_API_KEY and AIRTABLE_BASE_ID in your Vercel project."
NotFoundMessage == "Program not found"
InternalMessage == "Internal Server Error"
JsonType == "application/json"
CacheDirective == "s-maxage=60, stale-while-revalidate=300"

NoBody == [unset |-> TRUE]
\* A ServerResponse nothing was written to: statusCode is Node's default.
FreshRes ==
  [statusCode |-> 200, contentType |-> "", cacheControl |-> "", body |-> NoBody,
   ended |-> 0]
NoGot ==
  [slug |-> <<>>, esc |-> <<>>, progRecords |-> <<>>,
   title |-> JsUndefined, subtitle |-> JsUndefined,
   overview |-> <<>>, results |-> [t \in ChildTables |-> <<>>]]
NoRequest == [method |-> JsUndefined, slug |-> JsUndefined]

\* !AIRTABLE_API_KEY || !AIRTABLE_BASE_ID
ConfigAbsent == ~Truthy(env.AIRTABLE_API_KEY) \/ ~Truthy(env.AIRTABLE_BASE_ID)

\* (query.slug || '').trim()
TrimmedSlug(param) == Trim(JsOr(param, JsText(<<>>)).v)
SlugOf(r) == TrimmedSlug(req[r].slug)

ListQuery == Query("ClinicalPrograms", NoFormula, 0, ListPageSize, FALSE, "all")
ParentQuery(esc) ==
  Query("ClinicalPrograms", ParentFilter(esc), ParentMaxRecords, 0, FALSE, "firstPage")
ChildQuery(t, esc) ==
  Query(t, ChildFilter(esc), 0, ChildPageSize(t), t = "TrainingModules", "all")

\* The response written with the cache directive whatever its status.
EndedAlwaysCached(r, status, cache, body) ==
  [res EXCEPT ![r] = [statusCode |-> status, contentType |-> JsonType,
                      cacheControl |-> CacheDirective, body |-> body,
                      ended |-> @.ended + 1]]

\* statusCode, the headers and res.end(JSON.stringify(body))
Ended(r, status, cache, body) ==
  [res EXCEPT ![r] = [statusCode |-> status, contentType |-> JsonType,
                      cacheControl |-> cache, body |-> body,
                      ended |-> @.ended + 1]]

ErrorBody(message) == [error |-> message]

\* The catch block with the thrown message echoed to the client.
CaughtEchoed(r, message) ==
  /\ log' = Append(log, [req |-> r, message |-> message])
  /\ res' = Ended(r, 500, "", ErrorBody(message))

\* The catch block answering every request still in progress: a failure of
\* one request ends the responses of the others as well.
CaughtShared(r, message) ==
  /\ log' = Append(log, [req |-> r, message |-> message])
  /\ res' = [o \in Requests |->
               IF o = r \/ (pc[o] \notin {"unused", "done"})
                 THEN [statusCode |-> 500, contentType |-> JsonType,
                       cacheControl |-> "", body |-> ErrorBody(InternalMessage),
                       ended |-> res[o].ended + 1]
                 ELSE res[o]]

\* The catch block: console.error, then the fixed 500 body.
Caught(r, message) ==
  /\ log' = Append(log, [req |-> r, message |-> message])
  /\ res' = Ended(r, 500, "", ErrorBody(InternalMessage))

\* The method test accepting every verb.
MethodRejectedNever(r) == FALSE

MethodRejected(r) == req[r].method # Get

\* The configuration test looking at the access key only.
ConfigRejectedKeyOnly(r) == ~Truthy(env.AIRTABLE_API_KEY)

ConfigRejected(r) == ConfigAbsent

\* if (req.method !== 'GET') ... return
MethodNotAllowed(r) ==
  /\ pc[r] = "start"
  /\ MethodRejected(r)
  /\ res' = Ended(r, 405, "", ErrorBody(MethodNotAllowedMessage))
  /\ pc' = [pc EXCEPT ![r] = "done"]
  /\ UNCHANGED <<env, dialect, store, req, fetch, issued, got, log, pvars>>

\* if (!AIRTABLE_API_KEY || !AIRTABLE_BASE_ID) ... return
ConfigMissing(r) ==
  /\ pc[r] = "start"
  /\ ~MethodRejected(r)
  /\ ConfigRejected(r)
  /\ res' = Ended(r, 500, "", ErrorBody(ConfigMessage))
  /\ pc' = [pc EXCEPT ![r] = "done"]
  /\ UNCHANGED <<env, dialect, store, req, fetch, issued, got, log, pvars>>

\* if (!slug): the listing select is issued and awaited
StartListing(r) ==
  /\ pc[r] = "start"
  /\ ~MethodRejected(r)
  /\ ~ConfigRejected(r)
  /\ SlugOf(r) = <<>>
  /\ issued' = [issued EXCEPT ![r] = Append(@, ListQuery)]
  /\ fetch' = [fetch EXCEPT ![r]["list"] = "pending"]
  /\ pc' = [pc EXCEPT ![r] = "awaitList"]
  /\ UNCHANGED <<env, dialect, store, req, got, res, log, pvars>>

\* The listing array: records.map(...)
ListItem(rec) ==
  [slug |-> JsOr(JsText(rec.programSlug), JsStr("")),
   name |-> JsOr(rec.programName, JsStr("")),
   description |-> JsOr(rec.programDescription, JsStr(""))]

\* The listing array built back to front.
ListItemsReversed(records) ==
  [i \in 1..Len(records) |-> ListItem(records[Len(records) + 1 - i])]

ListItems(records) == [i \in 1..Len(records) |-> ListItem(records[i])]

ListingOk(r) ==
  /\ pc[r] = "awaitList"
  /\ fetch[r]["list"] = "pending"
  /\ \E records \in Answers(store["ClinicalPrograms"], ListQuery, dialect) :
       res' = Ended(r, 200, CacheDirective, [items |-> ListItems(records)])
  /\ fetch' = [fetch EXCEPT ![r]["list"] = "ok"]
  /\ pc' = [pc EXCEPT ![r] = "done"]
  /\ UNCHANGED <<env, dialect, store, req, issued, got, log, pvars>>

ListingFail(r) ==
  /\ pc[r] = "awaitList"
  /\ fetch[r]["list"] = "pending"
  /\ \E message \in StoreErrors : Caught(r, message)
  /\ fetch' = [fetch EXCEPT ![r]["list"] = "failed"]
  /\ pc' = [pc EXCEPT ![r] = "done"]
  /\ UNCHANGED <<env, dialect, store, req, issued, got, pvars>>

\* const esc = escapeFormulaString(slug); the parent lookup is issued and
\* awaited
StartLookup(r) ==
  /\ pc[r] = "start"
  /\ ~MethodRejected(r)
  /\ ~ConfigRejected(r)
  /\ SlugOf(r) # <<>>
  /\ LET slug == SlugOf(r)
         esc  == escapeFormulaString(slug)
     IN  /\ got' = [got EXCEPT ![r].slug = slug, ![r].esc = esc]
         /\ issued' = [issued EXCEPT ![r] = Append(@, ParentQuery(esc))]
  /\ fetch' = [fetch EXCEPT ![r]["parent"] = "pending"]
  /\ pc' = [pc EXCEPT ![r] = "awaitParent"]
  /\ UNCHANGED <<env, dialect, store, req, res, log, pvars>>

\* The not-found test never taken.
ParentMissingNever(progRecords) == FALSE

\* !progRecords || progRecords.length === 0
ParentMissing(progRecords) == Len(progRecords) = 0

ParentNotFound(r) ==
  /\ pc[r] = "awaitParent"
  /\ fetch[r]["parent"] = "pending"
  /\ \E progRecords \in
         Answers(store["ClinicalPrograms"], ParentQuery(got[r].esc), dialect) :
       /\ ParentMissing(progRecords)
       /\ got' = [got EXCEPT ![r].progRecords = progRecords]
  /\ res' = Ended(r, 404, "", ErrorBody(NotFoundMessage))
  /\ fetch' = [fetch EXCEPT ![r]["parent"] = "ok"]
  /\ pc' = [pc EXCEPT ![r] = "done"]
  /\ UNCHANGED <<env, dialect, store, req, issued, log, pvars>>

\* The four child selects in the order Promise.all is handed them.
ChildOrder == <<"TrainingModules", "ProtocolManuals", "DocumentationForms",
                "AdditionalResources">>

\* p = progRecords[0]; title, subtitle, overview; the four child selects are
\* issued and Promise.all of them awaited
ParentFound(r) ==
  /\ pc[r] = "awaitParent"
  /\ fetch[r]["parent"] = "pending"
  /\ \E progRecords \in
         Answers(store["ClinicalPrograms"], ParentQuery(got[r].esc), dialect) :
       /\ ~ParentMissing(progRecords)
       /\ LET p == IF Len(progRecords) > 0 THEN progRecords[1]
                   ELSE Program(0, <<>>, JsUndefined, JsUndefined, JsUndefined)
              overviewRaw == JsOr(p.programOverview, JsText(<<>>)).v
          IN  got' = [got EXCEPT
                        ![r].progRecords = progRecords,
                        ![r].title = JsOr(p.programName, JsStr("")),
                        ![r].subtitle = JsOr(p.programDescription, JsStr("")),
                        ![r].overview = Overview(overviewRaw)]
  /\ issued' = [issued EXCEPT ![r] =
                  @ \o [i \in 1..4 |-> ChildQuery(ChildOrder[i], got[r].esc)]]
  /\ fetch' = [fetch EXCEPT ![r] =
                 [q \in QueryNames |->
                    IF q \in ChildTables THEN "pending"
                    ELSE IF q = "parent" THEN "ok" ELSE @[q]]]
  /\ pc' = [pc EXCEPT ![r] = "awaitChildren"]
  /\ UNCHANGED <<env, dialect, store, req, res, log, pvars>>

\* A rejected parent lookup issued a second time before giving up.
ParentLookupRetried(r) ==
  /\ pc[r] = "awaitParent"
  /\ fetch[r]["parent"] = "pending"
  /\ IF Len(issued[r]) < 2
       THEN /\ issued' = [issued EXCEPT ![r] = Append(@, ParentQuery(got[r].esc))]
            /\ UNCHANGED <<fetch, pc, res, log>>
       ELSE /\ \E message \in StoreErrors : Caught(r, message)
            /\ fetch' = [fetch EXCEPT ![r]["parent"] = "failed"]
            /\ pc' = [pc EXCEPT ![r] = "done"]
            /\ UNCHANGED issued
  /\ UNCHANGED <<env, dialect, store, req, got, pvars>>

ParentLookupFail(r) ==
  /\ pc[r] = "awaitParent"
  /\ fetch[r]["parent"] = "pending"
  /\ \E message \in StoreErrors : Caught(r, message)
  /\ fetch' = [fetch EXCEPT ![r]["parent"] = "failed"]
  /\ pc' = [pc EXCEPT ![r] = "done"]
  /\ UNCHANGED <<env, dialect, store, req, issued, got, pvars>>

\* The detail object with its empty sequences left out.
DetailDropsEmpty(g) ==
  LET whole == [slug |-> g.slug, title |-> g.title, subtitle |-> g.subtitle,
                image |-> JsUndefined, overview |-> g.overview,
                modules |-> MapModules(g.results["TrainingModules"]),
                manuals |-> MapManuals(g.results["ProtocolManuals"]),
                forms |-> MapForms(g.results["DocumentationForms"]),
                resources |-> MapResources(g.results["AdditionalResources"])]
      lists == {"overview", "modules", "manuals", "forms", "resources"}
      kept  == {k \in DOMAIN whole : k \in lists => whole[k] # <<>>}
  IN  [k \in kept |-> whole[k]]

\* The detail object
Detail(g) ==
  [slug |-> g.slug, title |-> g.title, subtitle |-> g.subtitle,
   image |-> JsUndefined, overview |-> g.overview,
   modules |-> MapModules(g.results["TrainingModules"]),
   manuals |-> MapManuals(g.results["ProtocolManuals"]),
   forms |-> MapForms(g.results["DocumentationForms"]),
   resources |-> MapResources(g.results["AdditionalResources"])]

\* A fulfilled child select whose records are stored by order of arrival:
\* the first to fulfil fills the first slot, whichever table it read.
ChildFetchOkByArrival(r, t) ==
  /\ fetch[r][t] = "pending"
  /\ \/ pc[r] = "done"
     \/ \E u \in ChildTables \ {t} : fetch[r][u] # "ok"
  /\ fetch' = [fetch EXCEPT ![r][t] = "ok"]
  /\ IF pc[r] = "awaitChildren"
       THEN \E recs \in Answers(store[t], ChildQuery(t, got[r].esc), dialect) :
              LET arrived == Cardinality({u \in ChildTables : fetch[r][u] = "ok"})
              IN  got' = [got EXCEPT ![r].results[ChildOrder[arrived + 1]] = recs]
       ELSE got' = got
  /\ UNCHANGED <<env, dialect, store, req, pc, issued, res, log, pvars>>

\* One child select fulfils while Promise.all still waits for another, or
\* after Promise.all has rejected.
ChildFetchOk(r, t) ==
  /\ fetch[r][t] = "pending"
  /\ \/ pc[r] = "done"
     \/ \E u \in ChildTables \ {t} : fetch[r][u] # "ok"
  /\ fetch' = [fetch EXCEPT ![r][t] = "ok"]
  /\ IF pc[r] = "awaitChildren"
       THEN \E recs \in Answers(store[t], ChildQuery(t, got[r].esc), dialect) :
              got' = [got EXCEPT ![r].results[t] = recs]
       ELSE got' = got
  /\ UNCHANGED <<env, dialect, store, req, pc, issued, res, log, pvars>>

\* The detail object sent as soon as one child select fulfils, without
\* waiting for the others.
AssembleDetailEarly(r, t) ==
  /\ pc[r] = "awaitChildren"
  /\ fetch[r][t] = "pending"
  /\ fetch' = [fetch EXCEPT ![r][t] = "ok"]
  /\ \E recs \in Answers(store[t], ChildQuery(t, got[r].esc), dialect) :
       LET g == [got[r] EXCEPT !.results[t] = recs]
       IN  /\ got' = [got EXCEPT ![r] = g]
           /\ res' = Ended(r, 200, CacheDirective, Detail(g))
  /\ pc' = [pc EXCEPT ![r] = "done"]
  /\ UNCHANGED <<env, dialect, store, req, issued, log, pvars>>

\* The last of the four fulfils: Promise.all resolves, the detail object is
\* built and sent.
AssembleDetail(r, t) ==
  /\ pc[r] = "awaitChildren"
  /\ fetch[r][t] = "pending"
  /\ \A u \in ChildTables \ {t} : fetch[r][u] = "ok"
  /\ fetch' = [fetch EXCEPT ![r][t] = "ok"]
  /\ \E recs \in Answers(store[t], ChildQuery(t, got[r].esc), dialect) :
       LET g == [got[r] EXCEPT !.results[t] = recs]
       IN  /\ got' = [got EXCEPT ![r] = g]
           /\ res' = Ended(r, 200, CacheDirective, Detail(g))
  /\ pc' = [pc EXCEPT ![r] = "done"]
  /\ UNCHANGED <<env, dialect, store, req, issued, log, pvars>>

\* A rejected child select taken as an empty result: the detail object is
\* sent with what the other selects have returned so far.
ChildFetchFailPartial(r, t) ==
  /\ pc[r] = "awaitChildren"
  /\ fetch[r][t] = "pending"
  /\ res' = Ended(r, 200, CacheDirective, Detail(got[r]))
  /\ fetch' = [fetch EXCEPT ![r][t] = "failed"]
  /\ pc' = [pc EXCEPT ![r] = "done"]
  /\ UNCHANGED <<env, dialect, store, req, issued, got, log, pvars>>

\* A child select rejects while Promise.all is awaited: Promise.all rejects
\* with it and the catch block answers.
ChildFetchFail(r, t) ==
  /\ pc[r] = "awaitChildren"
  /\ fetch[r][t] = "pending"
  /\ \E message \in StoreErrors : Caught(r, message)
  /\ fetch' = [fetch EXCEPT ![r][t] = "failed"]
  /\ pc' = [pc EXCEPT ![r] = "done"]
  /\ UNCHANGED <<env, dialect, store, req, issued, got, pvars>>

\* A child select rejecting after Promise.all has: the catch block run once
\* more.
ChildFetchFailLateCaught(r, t) ==
  /\ pc[r] = "done"
  /\ fetch[r][t] = "pending"
  /\ \E message \in StoreErrors : Caught(r, message)
  /\ fetch' = [fetch EXCEPT ![r][t] = "failed"]
  /\ UNCHANGED <<env, dialect, store, req, pc, issued, got, pvars>>

\* A child select rejects after Promise.all has rejected: nothing awaits it.
ChildFetchFailLate(r, t) ==
  /\ pc[r] = "done"
  /\ fetch[r][t] = "pending"
  /\ fetch' = [fetch EXCEPT ![r][t] = "failed"]
  /\ UNCHANGED <<env, dialect, store, req, pc, issued, got, res, log, pvars>>

HandlerStep(r) ==
  \/ MethodNotAllowed(r)
  \/ ConfigMissing(r)
  \/ StartListing(r)
  \/ ListingOk(r)
  \/ ListingFail(r)
  \/ StartLookup(r)
  \/ ParentNotFound(r)
  \/ ParentFound(r)
  \/ ParentLookupFail(r)
  \/ \E t \in ChildTables :
       \/ ChildFetchOk(r, t)
       \/ AssembleDetail(r, t)
       \/ ChildFetchFail(r, t)
       \/ ChildFetchFailLate(r, t)

\* One request, of any method and slug, against any configuration and store.
InitRequest(r, active) ==
  IF r \in active THEN "start" ELSE "unused"

Init ==
  /\ env \in [AIRTABLE_API_KEY : EnvValues, AIRTABLE_BASE_ID : EnvValues]
  /\ dialect \in Dialects
  /\ store \in Stores
  /\ \E m \in Methods, sl \in SlugParams :
       req = [r \in Requests |->
                IF r = 1 THEN [method |-> m, slug |-> sl] ELSE NoRequest]
  /\ pc = [r \in Requests |-> InitRequest(r, {1})]
  /\ fetch = [r \in Requests |-> [q \in QueryNames |-> "none"]]
  /\ issued = [r \in Requests |-> <<>>]
  /\ got = [r \in Requests |-> NoGot]
  /\ res = [r \in Requests |-> FreshRes]
  /\ log = <<>>
  /\ fn = "handler"
  /\ arg = NotRun
  /\ out = NotRun
  /\ page = NoPage

Next == \E r \in Requests : HandlerStep(r)

Spec == Init /\ [][Next]_vars

(***************************************************************************)
(* Properties of the handler                                               *)
(***************************************************************************)
Answered(r, status, body) ==
  /\ pc[r] = "done"
  /\ res[r].ended = 1
  /\ res[r].statusCode = status
  /\ res[r].body = body

NoStoreCall(r) ==
  /\ issued[r] = <<>>
  /\ \A q \in QueryNames : fetch[r][q] = "none"

NoChildFetch(r) ==
  /\ \A t \in ChildTables : fetch[r][t] = "none"
  /\ \A i \in 1..Len(issued[r]) : issued[r][i].table \notin ChildTables

\* C1: a GET request whose parent lookup resolved to no record is answered
\* 404, and no query on any of the four child tables is issued for it, in
\* that state or in any later one.
C1_NotFoundNoChildFetch ==
  \A r \in Requests :
    (fetch[r]["parent"] = "ok" /\ got[r].progRecords = <<>>)
      => /\ Answered(r, 404, ErrorBody(NotFoundMessage))
         /\ NoChildFetch(r)

C1_Witness ==
  /\ req[1].slug = JsText(<<"c">>)
  /\ store = SmallStore
  /\ fetch[1]["parent"] = "ok"
  /\ got[1].progRecords = <<>>
  /\ res[1].statusCode = 404

\* C2: with the access key or the base identifier absent, a GET request,
\* with or without a slug, never issues a store call and, once answered,
\* carries status 500 and the configuration message.
C2_ConfigMissing500 ==
  \A r \in Requests :
    (pc[r] # "unused" /\ req[r].method = Get /\ ConfigAbsent)
      => /\ NoStoreCall(r)
         /\ pc[r] \in {"start", "done"}
         /\ pc[r] = "done" => Answered(r, 500, ErrorBody(ConfigMessage))

C2_Witness ==
  /\ req[1].method = Get
  /\ req[1].slug = JsText(SlugA)
  /\ env.AIRTABLE_API_KEY = JsStr("set")
  /\ env.AIRTABLE_BASE_ID = JsUndefined
  /\ Answered(1, 500, ErrorBody(ConfigMessage))
  /\ NoStoreCall(1)

\* C3: a request whose method is not GET never issues a store call and is
\* answered 405 with {error: 'Method Not Allowed'}, whatever its slug and
\* whatever the configuration.
C3_MethodNotAllowed405 ==
  \A r \in Requests :
    (pc[r] # "unused" /\ req[r].method # Get)
      => /\ NoStoreCall(r)
         /\ pc[r] \in {"start", "done"}
         /\ pc[r] = "done" => Answered(r, 405, ErrorBody(MethodNotAllowedMessage))

C3_Witness ==
  /\ req[1].method = JsStr("POST")
  /\ req[1].slug = JsText(SlugA)
  /\ ~ConfigAbsent
  /\ Answered(1, 405, ErrorBody(MethodNotAllowedMessage))
  /\ NoStoreCall(1)

HasField(body, name) == name \in DOMAIN body

\* C6: the listing response holds at most 50 items, and the modules,
\* manuals, forms and resources of a detail response at most 100, 100, 200
\* and 100 items.
C6_ResponseCaps ==
  \A r \in Requests :
    /\ HasField(res[r].body, "items") => Len(res[r].body.items) <= ListPageSize
    /\ HasField(res[r].body, "modules") =>
         /\ Len(res[r].body.modules) <= ModulesPageSize
         /\ Len(res[r].body.manuals) <= ManualsPageSize
         /\ Len(res[r].body.forms) <= FormsPageSize
         /\ Len(res[r].body.resources) <= ResourcesPageSize

Logged(r) ==
  \E i \in 1..Len(log) : log[i].req = r /\ log[i].message \in StoreErrors

\* C10: a request one of whose store calls rejected is answered 500 with
\* the fixed body {error: 'Internal Server Error'}; the store's message is
\* logged and is in no response body.
C10_StoreErrorGeneric500 ==
  \A r \in Requests :
    /\ (\E q \in QueryNames : fetch[r][q] = "failed")
         => /\ Answered(r, 500, ErrorBody(InternalMessage))
            /\ Logged(r)
    /\ \A message \in StoreErrors : res[r].body # ErrorBody(message)

C10_Witness ==
  /\ fetch[1]["DocumentationForms"] = "failed"
  /\ \A t \in ChildTables \ {"DocumentationForms"} : fetch[1][t] = "ok"
  /\ Answered(1, 500, ErrorBody(InternalMessage))
  /\ Logged(1)

(***************************************************************************)
(* The helpers on their own: each specification below draws the input of   *)
(* one helper from a bounded set and applies the helper to it as the       *)
(* handler does.  No request is in progress.                               *)
(***************************************************************************)
NoHandler ==
  /\ env = [AIRTABLE_API_KEY |-> JsUndefined, AIRTABLE_BASE_ID |-> JsUndefined]
  /\ store = EmptyStore
  /\ req = [r \in Requests |-> NoRequest]
  /\ pc = [r \in Requests |-> "unused"]
  /\ fetch = [r \in Requests |-> [q \in QueryNames |-> "none"]]
  /\ issued = [r \in Requests |-> <<>>]
  /\ got = [r \in Requests |-> NoGot]
  /\ res = [r \in Requests |-> FreshRes]
  /\ log = <<>>

(***************************************************************************)
(* slug -> trimmed slug -> escaped slug -> the two filter formulas         *)
(***************************************************************************)
InitEscape ==
  /\ NoHandler
  /\ dialect \in Dialects
  /\ fn = "escape"
  /\ arg \in {JsUndefined} \cup {JsText(cs) : cs \in SeqsUpTo(SlugChars, MaxSlugLen)}
  /\ out = NotRun
  /\ page = NoPage

\* slug = (query.slug || '').trim(); esc = escapeFormulaString(slug); the
\* parent and the child filterByFormula
BuildFilters ==
  /\ fn = "escape"
  /\ out = NotRun
  /\ TrimmedSlug(arg) # <<>>
  /\ LET slug == TrimmedSlug(arg)
         esc  == escapeFormulaString(slug)
     IN  out' = [kind |-> "filters", slug |-> slug, esc |-> esc,
                 parent |-> ParentFilter(esc), child |-> ChildFilter(esc)]
  /\ UNCHANGED <<hvars, fn, arg, page>>

\* if (!slug): no formula is written
NoSlugNoFilter ==
  /\ fn = "escape"
  /\ out = NotRun
  /\ TrimmedSlug(arg) = <<>>
  /\ out' = [kind |-> "listing"]
  /\ UNCHANGED <<hvars, fn, arg, page>>

NextEscape == BuildFilters \/ NoSlugNoFilter

SpecEscape == InitEscape /\ [][NextEscape]_vars

\* C4: in both filter formulas the literal opened by the handler's quote
\* ends exactly at the quote the handler closes it with, whatever
\* characters the slug holds.
C4_NoFilterInjection ==
  out.kind = "filters" =>
    /\ LiteralEnd(out.parent, ParentOpen, dialect) = ParentClose(out.esc)
    /\ LiteralEnd(out.child, ChildOpen, dialect) = ChildClose(out.esc)

CountQuotes(cs) == Cardinality({i \in 1..Len(cs) : cs[i] = SQ})

\* The maximal runs of quotes of cs, as pairs of first and last index.
QuoteRuns(cs) ==
  {<<i, j>> \in (1..Len(cs)) \X (1..Len(cs)) :
     /\ i <= j
     /\ \A k \in i..j : cs[k] = SQ
     /\ (i = 1 \/ cs[i - 1] # SQ)
     /\ (j = Len(cs) \/ cs[j + 1] # SQ)}

WithoutQuotes(cs) == SelectSeq(cs, LAMBDA c : c # SQ)

\* Every '' read back as one '.
RECURSIVE Undouble(_)
Undouble(cs) ==
  IF cs = <<>> THEN <<>>
  ELSE IF Len(cs) >= 2 /\ cs[1] = SQ /\ cs[2] = SQ
         THEN <<SQ>> \o Undouble(SubSeq(cs, 3, Len(cs)))
  ELSE <<Head(cs)>> \o Undouble(Tail(cs))

\* C5: the escaped slug holds two quotes for every quote of the slug and
\* the other characters unchanged and in order: its quotes are twice those
\* of the slug, every maximal run of them has even length, and un-doubling
\* gives back the slug.
C5_EscapeDoublesQuotes ==
  out.kind = "filters" =>
    /\ CountQuotes(out.esc) = 2 * CountQuotes(out.slug)
    /\ Len(out.esc) = Len(out.slug) + CountQuotes(out.slug)
    /\ \A run \in QuoteRuns(out.esc) : (run[2] - run[1] + 1) % 2 = 0
    /\ WithoutQuotes(out.esc) = WithoutQuotes(out.slug)
    /\ Undouble(out.esc) = out.slug

C5_Witness ==
  /\ out.kind = "filters"
  /\ out.slug = <<"a", SQ, SQ, "a">>
  /\ out.esc = <<"a", SQ, SQ, SQ, SQ, "a">>

(***************************************************************************)
(* programOverview -> overview                                             *)
(***************************************************************************)
TextChars == {"A", "B", SP, NL, CR}

InitOverview ==
  /\ NoHandler
  /\ dialect = "doubled"
  /\ fn = "overview"
  /\ arg \in {JsUndefined} \cup {JsText(cs) : cs \in SeqsUpTo(TextChars, MaxTextLen)}
  /\ out = NotRun
  /\ page = NoPage

\* overviewRaw = p.get('programOverview') || ''; overview = ...
SplitOverviewText ==
  /\ fn = "overview"
  /\ out = NotRun
  /\ LET overviewRaw == JsOr(arg, JsText(<<>>)).v
     IN  out' = [kind |-> "overview", raw |-> overviewRaw,
                 overview |-> Overview(overviewRaw)]
  /\ UNCHANGED <<hvars, fn, arg, page>>

NextOverview == SplitOverviewText

SpecOverview == InitOverview /\ [][NextOverview]_vars

\* The text cut at every newline character.
RECURSIVE CutAtNewlines(_)
CutAtNewlines(text) ==
  IF \A i \in 1..Len(text) : text[i] # NL THEN <<text>>
  ELSE LET first == CHOOSE i \in 1..Len(text) :
                      text[i] = NL /\ \A k \in 1..(i - 1) : text[k] # NL
       IN  <<SubSeq(text, 1, first - 1)>>
             \o CutAtNewlines(SubSeq(text, first + 1, Len(text)))

TrimmedNonEmptyLines(text) ==
  LET lines == CutAtNewlines(text)
  IN  SelectSeq([i \in 1..Len(lines) |-> Trim(lines[i])], LAMBDA l : l # <<>>)

\* C8: the overview is the text cut at every newline, each piece trimmed
\* and the empty ones dropped, in order; no element is empty or starts or
\* ends with white space; the empty text gives the empty sequence, and
\* "A\n\nB" and "A\nB" both give ["A", "B"].
C8_OverviewSegments ==
  out.kind = "overview" =>
    /\ out.overview = TrimmedNonEmptyLines(out.raw)
    /\ \A i \in 1..Len(out.overview) :
         /\ out.overview[i] # <<>>
         /\ ~IsSpace(out.overview[i][1])
         /\ ~IsSpace(out.overview[i][Len(out.overview[i])])
    /\ out.raw = <<>> => out.overview = <<>>
    /\ out.raw = <<"A", NL, NL, "B">> => out.overview = << <<"A">>, <<"B">> >>
    /\ out.raw = <<"A", NL, "B">> => out.overview = << <<"A">>, <<"B">> >>

C8_Witness ==
  /\ out.kind = "overview"
  /\ out.raw = <<"A", NL, SP, NL, "B">>
  /\ out.overview = << <<"A">>, <<"B">> >>

(***************************************************************************)
(* child record -> item of the detail object, for each of the four tables  *)
(***************************************************************************)
MaxAttachments == 2

LinkValues == {JsUndefined, JsNull, JsStr(""), JsStr("http://link"), JsNum(7)}
AttachmentValues ==
  {JsObj(JsStr("http://file/1")), JsObj(JsStr("http://file/2")),
   JsObj(JsUndefined), JsObj(JsStr("")), JsNull}
FileValues ==
  {JsUndefined, JsNull, JsStr("not a list"), JsObj(JsStr("http://file/1"))}
    \cup {JsArr(l) : l \in SeqsUpTo(AttachmentValues, MaxAttachments)}

InitResolve ==
  /\ NoHandler
  /\ dialect = "doubled"
  /\ fn = "resolve"
  /\ arg \in [table : ChildTables, link : LinkValues, file : FileValues]
  /\ out = NotRun
  /\ page = NoPage

ArgRecord == Child(1, <<SlugA>>, JsStr("Name"), arg.link, arg.file, JsUndefined, 0)

MapOneModule ==
  /\ fn = "resolve" /\ out = NotRun /\ arg.table = "TrainingModules"
  /\ out' = [kind |-> "item", url |-> MapModules(<<ArgRecord>>)[1].url]
  /\ UNCHANGED <<hvars, fn, arg, page>>

MapOneManual ==
  /\ fn = "resolve" /\ out = NotRun /\ arg.table = "ProtocolManuals"
  /\ out' = [kind |-> "item", url |-> MapManuals(<<ArgRecord>>)[1].fileUrl]
  /\ UNCHANGED <<hvars, fn, arg, page>>

MapOneForm ==
  /\ fn = "resolve" /\ out = NotRun /\ arg.table = "DocumentationForms"
  /\ out' = [kind |-> "item", url |-> MapForms(<<ArgRecord>>)[1].fileUrl]
  /\ UNCHANGED <<hvars, fn, arg, page>>

MapOneResource ==
  /\ fn = "resolve" /\ out = NotRun /\ arg.table = "AdditionalResources"
  /\ out' = [kind |-> "item", url |-> MapResources(<<ArgRecord>>)[1].url]
  /\ UNCHANGED <<hvars, fn, arg, page>>

NextResolve == MapOneModule \/ MapOneManual \/ MapOneForm \/ MapOneResource

SpecResolve == InitResolve /\ [][NextResolve]_vars

NonEmptyString(x) == x.t = "string" /\ x.v # ""

\* The url the first-match-wins policy names for a link and a file field.
PolicyUrl(link, file) ==
  IF NonEmptyString(link) THEN link
  ELSE IF file.t = "array" /\ Len(file.v) > 0
         THEN IF file.v[1].t = "object" /\ NonEmptyString(file.v[1].url)
                THEN file.v[1].url
                ELSE JsUndefined
  ELSE JsUndefined

\* C9: for a record of any of the four child tables the url is the link
\* field when that is a non-empty string; otherwise the url of the first
\* attachment when the file field is a non-empty list (undefined when the
\* first attachment has none, whatever the later ones hold); otherwise
\* undefined.  No input makes the resolution throw.
C9_ResolveUrlPolicy ==
  out.kind = "item" =>
    /\ out.url # JsThrow
    /\ out.url = PolicyUrl(arg.link, arg.file)

C9_Witness ==
  /\ out.kind = "item"
  /\ arg.table = "DocumentationForms"
  /\ arg.link = JsStr("http://link")
  /\ arg.file = JsArr(<<JsObj(JsStr("http://file/1")), JsObj(JsStr("http://file/2"))>>)
  /\ out.url = JsStr("http://link")

(***************************************************************************)
(* fetched TrainingModules records -> modules of the detail object         *)
(***************************************************************************)
MaxModules == 3
MaxSortOrder == 2

\* The sequences of at most MaxModules records of distinct ids.
FetchedModules ==
  {f \in SeqsUpTo((1..MaxModules) \X (1..MaxSortOrder), MaxModules) :
     \A i, j \in 1..Len(f) : i # j => f[i][1] # f[j][1]}

InitModules ==
  /\ NoHandler
  /\ dialect = "doubled"
  /\ fn = "modules"
  /\ \E f \in FetchedModules :
       arg = [i \in 1..Len(f) |->
                Child(f[i][1], <<SlugA>>, JsStr("Module"), JsUndefined,
                      JsUndefined, JsUndefined, f[i][2])]
  /\ out = NotRun
  /\ page = NoPage

\* modules.map(...) of the detail object
MapFetchedModules ==
  /\ fn = "modules"
  /\ out = NotRun
  /\ out' = [kind |-> "modules", modules |-> MapModules(arg)]
  /\ UNCHANGED <<hvars, fn, arg, page>>

NextModules == MapFetchedModules

SpecModules == InitModules /\ [][NextModules]_vars

\* sortOrder of the fetched record an item of the response was made from
FetchedIndex(item) == CHOOSE i \in 1..Len(arg) : arg[i].id = item.id
SortOrderOf(item) == arg[FetchedIndex(item)].sortOrder

AscendingBySortOrder(items) ==
  \A i, j \in 1..Len(items) :
    i < j => SortOrderOf(items[i]) <= SortOrderOf(items[j])

FetchedAscending ==
  \A i, j \in 1..Len(arg) : i < j => arg[i].sortOrder <= arg[j].sortOrder

\* C7 as stated: whatever the order of the fetched sequence, the modules
\* of the response are ascending by sortOrder, records of equal sortOrder
\* in the order they were fetched in (the assembly sorts them, stably).
C7_AssemblySortsModules ==
  out.kind = "modules" =>
    /\ Len(out.modules) = Len(arg)
    /\ AscendingBySortOrder(out.modules)
    /\ \A i, j \in 1..Len(out.modules) :
         (i < j /\ SortOrderOf(out.modules[i]) = SortOrderOf(out.modules[j]))
           => FetchedIndex(out.modules[i]) < FetchedIndex(out.modules[j])

\* C7 as amended: the modules of the response are the fetched records one
\* for one in the order they were fetched in, so they are ascending by
\* sortOrder exactly when the fetched sequence is, and records of equal
\* sortOrder keep their fetched order.
C7_ModulesKeepFetchedOrder ==
  out.kind = "modules" =>
    /\ Len(out.modules) = Len(arg)
    /\ \A i \in 1..Len(arg) : out.modules[i].id = arg[i].id
    /\ AscendingBySortOrder(out.modules) <=> FetchedAscending

C7_Witness ==
  /\ out.kind = "modules"
  /\ Len(arg) = 3
  /\ <<arg[1].sortOrder, arg[2].sortOrder, arg[3].sortOrder>> = <<1, 1, 2>>
  /\ <<out.modules[1].id, out.modules[2].id, out.modules[3].id>>
       = <<arg[1].id, arg[2].id, arg[3].id>>
  /\ AscendingBySortOrder(out.modules)


(***************************************************************************)
(* The two kinds of 500                                                    *)
(***************************************************************************)
ConfigAnswered(r) ==
  /\ pc[r] = "done"
  /\ req[r].method = Get
  /\ ConfigAbsent

\* C11 as stated: a GET request answered with the configuration absent
\* carries the body of an upstream failure, {error: 'Internal Server Error'}.
C11_ConfigMissingGenericBody ==
  \A r \in Requests :
    ConfigAnswered(r) => Answered(r, 500, ErrorBody(InternalMessage))

\* C11: a GET request answered with the configuration absent carries status
\* 500, the status of an upstream failure, and a body of its own: the error
\* text is the configuration message, which is not the text of the catch
\* block, and nothing is written to the log.
C11_ConfigMissingOwnBody ==
  \A r \in Requests :
    ConfigAnswered(r)
      => /\ res[r].statusCode = 500
         /\ res[r].body = ErrorBody(ConfigMessage)
         /\ res[r].body # ErrorBody(InternalMessage)
         /\ \A i \in 1..Len(log) : log[i].req # r

C11_Witness ==
  /\ req[1].method = Get
  /\ req[1].slug = JsUndefined
  /\ env.AIRTABLE_API_KEY = JsUndefined
  /\ env.AIRTABLE_BASE_ID = JsStr("set")
  /\ res[1].ended = 1
  /\ res[1].body.error = ConfigMessage

(***************************************************************************)
(* The listing path                                                        *)
(***************************************************************************)
\* A GET request, with the configuration present, whose slug parameter is
\* absent, empty or only whitespace.
ListingRequest(r) ==
  /\ pc[r] # "unused"
  /\ req[r].method = Get
  /\ Truthy(env.AIRTABLE_API_KEY)
  /\ Truthy(env.AIRTABLE_BASE_ID)
  /\ req[r].slug \in {JsUndefined, JsText(<<>>), JsText(<<SP>>)}

\* The field of a listing entry: the record's value, or '' when it has none.
ListedField(value) ==
  IF value \in {JsUndefined, JsNull, JsStr(""), JsText(<<>>)}
    THEN JsStr("") ELSE value

ListsTable(items, table) ==
  /\ Len(items) = Len(table)
  /\ \A i \in 1..Len(table) :
       /\ DOMAIN items[i] = {"slug", "name", "description"}
       /\ items[i].slug = ListedField(JsText(table[i].programSlug))
       /\ items[i].name = ListedField(table[i].programName)
       /\ items[i].description = ListedField(table[i].programDescription)

\* C12: a GET request with the configuration present and no slug issues one
\* query, the unfiltered select on ClinicalPrograms, and neither the parent
\* lookup nor a child fetch; when that query fulfils the request is answered
\* 200 with {items}, one {slug, name, description} entry per record of the
\* table, in the order of the table.
C12_ListingPath ==
  \A r \in Requests :
    ListingRequest(r)
      => /\ pc[r] \in {"start", "awaitList", "done"}
         /\ pc[r] = "start" => NoStoreCall(r)
         /\ pc[r] # "start"
              => /\ Len(issued[r]) = 1
                 /\ issued[r][1].table = "ClinicalPrograms"
                 /\ issued[r][1].filterByFormula = NoFormula
                 /\ fetch[r]["list"] # "none"
         /\ fetch[r]["parent"] = "none"
         /\ NoChildFetch(r)
         /\ fetch[r]["list"] = "ok"
              => /\ pc[r] = "done"
                 /\ res[r].ended = 1
                 /\ res[r].statusCode = 200
                 /\ DOMAIN res[r].body = {"items"}
                 /\ ListsTable(res[r].body.items, store["ClinicalPrograms"])

C12_Witness ==
  /\ req[1].method = Get
  /\ req[1].slug = JsText(<<SP>>)
  /\ store = SmallStore
  /\ fetch[1]["list"] = "ok"
  /\ res[1].statusCode = 200
  /\ Len(res[1].body.items) = 4
  /\ res[1].body.items[2].slug = JsText(SlugQ)
  /\ res[1].body.items[2].description = JsStr("")

(***************************************************************************)
(* The detail path                                                         *)
(***************************************************************************)
\* The field of the detail object each child table fills.
FieldOf(t) ==
  CASE t = "TrainingModules" -> "modules"
    [] t = "ProtocolManuals" -> "manuals"
    [] t = "DocumentationForms" -> "forms"
    [] t = "AdditionalResources" -> "resources"

\* The parent lookup returned a record and the four child fetches fulfilled.
AllFetched(r) ==
  /\ fetch[r]["parent"] = "ok"
  /\ got[r].progRecords # <<>>
  /\ \A t \in ChildTables : fetch[r][t] = "ok"

NoOverviewText(p) ==
  p.programOverview \in {JsUndefined, JsNull, JsText(<<>>)}

\* C13: a request whose parent lookup returned a record and whose four child
\* fetches fulfilled is answered 200, not 404 or 500, with overview, modules,
\* manuals, forms and resources all present; a parent without overview text
\* gives overview = [], and a child table without matching records gives its
\* field = [].
C13_EmptyIsValid ==
  \A r \in Requests :
    AllFetched(r)
      => /\ pc[r] = "done"
         /\ res[r].ended = 1
         /\ res[r].statusCode = 200
         /\ HasField(res[r].body, "overview")
         /\ NoOverviewText(got[r].progRecords[1]) => res[r].body.overview = <<>>
         /\ \A t \in ChildTables :
              /\ HasField(res[r].body, FieldOf(t))
              /\ got[r].results[t] = <<>> => res[r].body[FieldOf(t)] = <<>>

C13_Witness ==
  /\ store = SmallStore
  /\ req[1].slug = JsText(SlugB)
  /\ AllFetched(1)
  /\ got[1].progRecords[1].programOverview = JsText(<<>>)
  /\ \A t \in ChildTables : got[1].results[t] = <<>>
  /\ res[1].statusCode = 200
  /\ res[1].body.overview = <<>>
  /\ res[1].body.modules = <<>>
  /\ res[1].body.resources = <<>>

\* C14: a request one of whose four child fetches rejected, whichever it is
\* and whatever the other three did, has been answered once, with status 500
\* and {error: 'Internal Server Error'}: the body holds no field of the
\* detail object.
C14_ChildFailureFailsAll ==
  \A r \in Requests : \A t \in ChildTables :
    fetch[r][t] = "failed"
      => /\ fetch[r]["parent"] = "ok"
         /\ pc[r] = "done"
         /\ res[r].ended = 1
         /\ res[r].statusCode = 500
         /\ DOMAIN res[r].body = {"error"}
         /\ res[r].body.error = InternalMessage

C14_Witness ==
  /\ store = SmallStore
  /\ req[1].slug = JsText(SlugA)
  /\ fetch[1]["TrainingModules"] = "ok"
  /\ got[1].results["TrainingModules"] # <<>>
  /\ fetch[1]["ProtocolManuals"] = "ok"
  /\ fetch[1]["AdditionalResources"] = "ok"
  /\ fetch[1]["DocumentationForms"] = "failed"
  /\ res[1].statusCode = 500

SomeChildPending(r) == \E t \in ChildTables : fetch[r][t] = "pending"
SomeChildFailed(r) == \E t \in ChildTables : fetch[r][t] = "failed"

\* C15 as stated: a request that has been answered, with a success or with
\* an error, has none of its four child fetches still pending.
C15_NoResponseWhilePending ==
  \A r \in Requests : res[r].ended > 0 => ~SomeChildPending(r)

\* C15: while child fetches are pending and none has rejected, nothing has
\* been sent; a 200 is sent only with the four fulfilled; the one response
\* sent while a child fetch is still pending is the 500 that follows the
\* first rejected child fetch.
C15_WaitsUnlessRejected ==
  \A r \in Requests :
    /\ (SomeChildPending(r) /\ ~SomeChildFailed(r))
         => (pc[r] = "awaitChildren" /\ res[r].ended = 0)
    /\ (res[r].ended > 0 /\ SomeChildPending(r))
         => (SomeChildFailed(r) /\ res[r].statusCode = 500)
    /\ (res[r].ended > 0 /\ res[r].statusCode = 200 /\ fetch[r]["parent"] = "ok")
         => \A t \in ChildTables : fetch[r][t] = "ok"

C15_Witness ==
  /\ fetch[1]["ProtocolManuals"] = "failed"
  /\ \A t \in ChildTables \ {"ProtocolManuals"} : fetch[1][t] = "pending"
  /\ pc[1] = "done"
  /\ res[1].ended = 1
  /\ res[1].statusCode = 500

\* The mapping of the detail object applied to the records of table t.
MapOf(t, recs) ==
  CASE t = "TrainingModules" -> MapModules(recs)
    [] t = "ProtocolManuals" -> MapManuals(recs)
    [] t = "DocumentationForms" -> MapForms(recs)
    [] t = "AdditionalResources" -> MapResources(recs)

\* C16: the four child queries are issued together, in one step, after the
\* parent lookup (no state has some of them issued and others not); and in a
\* 200 detail response each of modules, manuals, forms and resources is the
\* mapping of an answer of the store to the query on its own table, whatever
\* the order in which the four fetches completed.
C16_IssuedTogetherOrderFree ==
  \A r \in Requests :
    /\ (\E t \in ChildTables : fetch[r][t] # "none")
         => /\ Len(issued[r]) = 5
            /\ \A i \in 1..4 :
                 /\ fetch[r][ChildOrder[i]] # "none"
                 /\ issued[r][i + 1] = ChildQuery(ChildOrder[i], got[r].esc)
    /\ (AllFetched(r) /\ res[r].ended > 0)
         => \A t \in ChildTables :
              /\ HasField(res[r].body, FieldOf(t))
              /\ \E recs \in Answers(store[t], ChildQuery(t, got[r].esc), dialect) :
                   res[r].body[FieldOf(t)] = MapOf(t, recs)

C16_Witness ==
  /\ store = SmallStore
  /\ dialect = "doubled"
  /\ req[1].slug = JsText(SlugA)
  /\ AllFetched(1)
  /\ res[1].statusCode = 200
  /\ Len(res[1].body.modules) = 3
  /\ Len(res[1].body.manuals) = 1
  /\ Len(res[1].body.forms) = 1
  /\ res[1].body.resources = <<>>

(***************************************************************************)
(* The store calls of one request                                          *)
(***************************************************************************)
IssuedOn(r, table, method) ==
  {i \in 1..Len(issued[r]) :
     issued[r][i].table = table /\ issued[r][i].method = method}

\* C17: within one request no query is issued twice: at most one listing
\* query, at most one parent lookup (exactly one once the detail path is
\* taken) and at most one query per child table.  A request whose listing
\* query or parent lookup rejected has issued that one query and no other; a
\* request with a rejected child fetch has issued the five and no more.  A
\* 200 detail response comes after exactly 5 queries, a 404 after exactly 1,
\* a 200 listing after exactly 1.
C17_NoRetry ==
  \A r \in Requests :
    /\ Cardinality(IssuedOn(r, "ClinicalPrograms", "all")) <= 1
    /\ Cardinality(IssuedOn(r, "ClinicalPrograms", "firstPage")) <= 1
    /\ \A t \in ChildTables : Cardinality(IssuedOn(r, t, "all")) <= 1
    /\ fetch[r]["parent"] # "none"
         => Cardinality(IssuedOn(r, "ClinicalPrograms", "firstPage")) = 1
    /\ (fetch[r]["list"] = "failed" \/ fetch[r]["parent"] = "failed")
         => Len(issued[r]) = 1
    /\ SomeChildFailed(r) => Len(issued[r]) = 5
    /\ (pc[r] = "done" /\ res[r].statusCode = 200 /\ fetch[r]["parent"] = "ok")
         => Len(issued[r]) = 5
    /\ (pc[r] = "done" /\ res[r].statusCode = 404) => Len(issued[r]) = 1
    /\ (pc[r] = "done" /\ res[r].statusCode = 200 /\ fetch[r]["list"] = "ok")
         => Len(issued[r]) = 1

C17_Witness ==
  /\ fetch[1]["parent"] = "ok"
  /\ fetch[1]["TrainingModules"] = "failed"
  /\ fetch[1]["ProtocolManuals"] = "failed"
  /\ fetch[1]["DocumentationForms"] = "ok"
  /\ fetch[1]["AdditionalResources"] = "failed"
  /\ Len(issued[1]) = 5
  /\ Len(log) = 1

(***************************************************************************)
(* The response                                                            *)
(***************************************************************************)
\* C19: every response that has been sent carries Content-Type
\* application/json; it carries Cache-Control, with the value s-maxage=60,
\* stale-while-revalidate=300, when its status is 200 and no Cache-Control
\* at all when its status is 404, 405 or 500.
C19_CacheOnlyOn200 ==
  \A r \in Requests :
    res[r].ended > 0
      => /\ res[r].contentType = JsonType
         /\ res[r].statusCode = 200 => res[r].cacheControl = CacheDirective
         /\ res[r].statusCode # 200 => res[r].cacheControl = ""

C19_Witness ==
  /\ res[1].ended = 1
  /\ res[1].statusCode = 404
  /\ res[1].contentType = JsonType
  /\ res[1].cacheControl = ""

Statuses == {200, 404, 405, 500}

Settled(r) == \A q \in QueryNames : fetch[r][q] # "pending"

\* C20: a response is never ended twice; a request whose handler has
\* returned has its response ended once, with status 200, 404, 405 or 500;
\* and a request that has issued store calls, all of them settled, has been
\* answered.
C20_EndedExactlyOnce ==
  \A r \in Requests :
    /\ res[r].ended <= 1
    /\ pc[r] = "done" <=> res[r].ended = 1
    /\ res[r].ended = 1 => res[r].statusCode \in Statuses
    /\ (issued[r] # <<>> /\ Settled(r)) => (pc[r] = "done" /\ res[r].ended = 1)
    /\ pc[r] \in {"awaitList", "awaitParent", "awaitChildren"} => ~Settled(r)

C20_Witness ==
  /\ pc[1] = "done"
  /\ res[1].ended = 1
  /\ res[1].statusCode = 500
  /\ Settled(1)
  /\ fetch[1]["TrainingModules"] = "failed"
  /\ fetch[1]["DocumentationForms"] = "failed"
  /\ fetch[1]["ProtocolManuals"] = "ok"

(***************************************************************************)
(* Two overlapping detail requests for the same slug: both are GET, the    *)
(* configuration is present, and their steps interleave in every way.      *)
(***************************************************************************)
TwoSlugs == {SlugB, <<"c">>}

InitTwo ==
  /\ env = [AIRTABLE_API_KEY |-> JsStr("set"), AIRTABLE_BASE_ID |-> JsStr("set")]
  /\ dialect = "doubled"
  /\ store = SmallStore
  /\ \E sl \in TwoSlugs :
       req = [r \in Requests |-> [method |-> Get, slug |-> JsText(sl)]]
  /\ pc = [r \in Requests |-> InitRequest(r, Requests)]
  /\ fetch = [r \in Requests |-> [q \in QueryNames |-> "none"]]
  /\ issued = [r \in Requests |-> <<>>]
  /\ got = [r \in Requests |-> NoGot]
  /\ res = [r \in Requests |-> FreshRes]
  /\ log = <<>>
  /\ fn = "handler"
  /\ arg = NotRun
  /\ out = NotRun
  /\ page = NoPage

\* The steps of the detail path.
DetailStep(r) ==
  \/ StartLookup(r)
  \/ ParentNotFound(r)
  \/ ParentFound(r)
  \/ ParentLookupFail(r)
  \/ \E t \in ChildTables :
       \/ ChildFetchOk(r, t)
       \/ AssembleDetail(r, t)
       \/ ChildFetchFail(r, t)
       \/ ChildFetchFailLate(r, t)

NextTwo == \E r \in Requests : DetailStep(r)

SpecTwo == InitTwo /\ [][NextTwo]_vars

\* What one request holds: its position, its store calls and their results,
\* and its response.
Local(r) == <<pc[r], fetch[r], issued[r], got[r], res[r]>>

\* The request has issued its own parent lookup and, once the lookup
\* returned a record, its own four child fetches; and its response follows
\* from the outcomes of its own store calls alone.
OwnWork(r) ==
  /\ pc[r] # "start"
       => /\ fetch[r]["parent"] # "none"
          /\ issued[r] # <<>>
          /\ issued[r][1] = ParentQuery(escapeFormulaString(SlugOf(r)))
  /\ (fetch[r]["parent"] = "ok" /\ got[r].progRecords # <<>>)
       => /\ Len(issued[r]) = 5
          /\ \A t \in ChildTables : fetch[r][t] # "none"
  /\ res[r].ended > 0
       => /\ res[r].ended = 1
          /\ res[r].statusCode = 500 <=> \E q \in QueryNames : fetch[r][q] = "failed"
          /\ res[r].statusCode = 404
               <=> (fetch[r]["parent"] = "ok" /\ got[r].progRecords = <<>>)
          /\ res[r].statusCode = 200 <=> AllFetched(r)
  /\ res[r].ended = 0 => \A q \in QueryNames : fetch[r][q] # "failed"

\* C18: of two overlapping detail requests for the same slug, each issues
\* its own parent lookup and its own four child fetches and is answered
\* from the outcomes of its own store calls; and no step changes what two
\* requests hold: a step of one request (a store failure included) leaves
\* the position, the store calls, the results and the response of the other
\* as they were.
C18_RequestsIndependent ==
  [][\A r \in Requests :
       /\ OwnWork(r)'
       /\ \A o \in Requests \ {r} :
            Local(o)' # Local(o) => Local(r)' = Local(r)]_vars

C18_Witness ==
  /\ req[1].slug = JsText(SlugB)
  /\ req[2].slug = JsText(SlugB)
  /\ fetch[1]["parent"] = "failed"
  /\ res[1].statusCode = 500
  /\ Len(issued[1]) = 1
  /\ AllFetched(2)
  /\ Len(issued[2]) = 5
  /\ res[2].statusCode = 200
  /\ res[2].body.title = JsStr("")

(***************************************************************************)
(* The ProgramDetail page: the state data / loading / error, the effect    *)
(* that depends on the slug, and the loads the effect has started.  Each   *)
(* run of the effect has its own isMounted; a load is                      *)
(*   [slug, isMounted, at], at one of fetch | json | text | end,           *)
(* the await it is suspended at.  page.arrived lists the loads in the      *)
(* order they ended.                                                       *)
(***************************************************************************)
PageSlugs == {"a", "b"}

\* How many times the effect runs.
MaxLoads == 3

FirstRender(slug) ==
  [kind |-> "page", mounted |-> TRUE, slug |-> slug, effect |-> "none",
   loading |-> TRUE, data |-> JsNull, error |-> JsNull,
   loads |-> <<>>, arrived |-> <<>>]

InitPage ==
  /\ NoHandler
  /\ dialect = "doubled"
  /\ fn = "page"
  /\ arg = NotRun
  /\ out = NotRun
  /\ page \in {FirstRender(slug) : slug \in PageSlugs}

\* return () => { isMounted = false; }
Cleanup(loads) == [i \in 1..Len(loads) |-> [loads[i] EXCEPT !.isMounted = FALSE]]

\* The completion of a load written to the state without the isMounted
\* test.
LiveAlways(load) == TRUE

\* if (isMounted)
Live(load) == load.isMounted

\* The effect after a render with a new slug: the cleanup of the previous
\* run, then let isMounted = true and load() up to its first await.
RunEffect ==
  /\ fn = "page"
  /\ page.mounted
  /\ page.effect # page.slug
  /\ Len(page.loads) < MaxLoads
  /\ page' = [page EXCEPT
                !.effect = page.slug,
                !.loading = TRUE,
                !.error = JsNull,
                !.loads = Append(Cleanup(page.loads),
                                 [slug |-> page.slug, isMounted |-> TRUE,
                                  at |-> "fetch"])]
  /\ UNCHANGED <<hvars, fn, arg, out>>

\* The route changes: the page renders with another slug.  The effects of
\* the previous render have run by then.
Navigate(slug) ==
  /\ fn = "page"
  /\ page.mounted
  /\ page.effect = page.slug
  /\ slug # page.slug
  /\ Len(page.loads) < MaxLoads
  /\ page' = [page EXCEPT !.slug = slug]
  /\ UNCHANGED <<hvars, fn, arg, out>>

\* The page is removed: the cleanup of the last run of the effect.
Unmount ==
  /\ fn = "page"
  /\ page.mounted
  /\ page' = [page EXCEPT !.mounted = FALSE, !.loads = Cleanup(page.loads)]
  /\ UNCHANGED <<hvars, fn, arg, out>>

Awaiting(i, at) ==
  /\ fn = "page"
  /\ i \in 1..Len(page.loads)
  /\ page.loads[i].at = at

\* await fetch(...) resolves with res.ok: on to await res.json()
ResponseOk(i) ==
  /\ Awaiting(i, "fetch")
  /\ page' = [page EXCEPT !.loads[i].at = "json"]
  /\ UNCHANGED <<hvars, fn, arg, out>>

\* await fetch(...) resolves with !res.ok: on to await res.text()
ResponseNotOk(i) ==
  /\ Awaiting(i, "fetch")
  /\ page' = [page EXCEPT !.loads[i].at = "text"]
  /\ UNCHANGED <<hvars, fn, arg, out>>

\* if (isMounted) setData(json); finally if (isMounted) setLoading(false)
Succeeded(i) ==
  LET load == page.loads[i]
  IN  [page EXCEPT
         !.data = IF Live(load)
                    THEN [t |-> "data", from |-> i, slug |-> load.slug] ELSE @,
         !.loading = IF Live(load) THEN FALSE ELSE @,
         !.loads[i].at = "end",
         !.arrived = Append(@, i)]

\* catch: if (isMounted) setError(...); finally if (isMounted)
\* setLoading(false)
Failed(i, message) ==
  LET load == page.loads[i]
  IN  [page EXCEPT
         !.error = IF Live(load)
                     THEN [t |-> "error", from |-> i, message |-> message] ELSE @,
         !.loading = IF Live(load) THEN FALSE ELSE @,
         !.loads[i].at = "end",
         !.arrived = Append(@, i)]

\* await res.json() resolves
JsonParsed(i) ==
  /\ Awaiting(i, "json")
  /\ page' = Succeeded(i)
  /\ UNCHANGED <<hvars, fn, arg, out>>

\* await res.json() rejects
JsonFailed(i) ==
  /\ Awaiting(i, "json")
  /\ page' = Failed(i, "thrown by res.json()")
  /\ UNCHANGED <<hvars, fn, arg, out>>

\* await fetch(...) rejects
FetchRejected(i) ==
  /\ Awaiting(i, "fetch")
  /\ page' = Failed(i, "thrown by fetch")
  /\ UNCHANGED <<hvars, fn, arg, out>>

\* await res.text() resolves: throw new Error('Failed to load program ...')
TextRead(i) ==
  /\ Awaiting(i, "text")
  /\ page' = Failed(i, "Failed to load program (status): txt")
  /\ UNCHANGED <<hvars, fn, arg, out>>

\* await res.text() rejects
TextFailed(i) ==
  /\ Awaiting(i, "text")
  /\ page' = Failed(i, "thrown by res.text()")
  /\ UNCHANGED <<hvars, fn, arg, out>>

NextPage ==
  \/ RunEffect
  \/ \E slug \in PageSlugs : Navigate(slug)
  \/ Unmount
  \/ \E i \in 1..MaxLoads :
       \/ ResponseOk(i)
       \/ ResponseNotOk(i)
       \/ JsonParsed(i)
       \/ JsonFailed(i)
       \/ FetchRejected(i)
       \/ TextRead(i)
       \/ TextFailed(i)

SpecPage == InitPage /\ [][NextPage]_vars

\* What the page renders: if (loading) ... if (error) ... if (!data) ...
Displayed ==
  IF ~page.mounted THEN "nothing"
  ELSE IF page.loading THEN "skeleton"
  ELSE IF page.error # JsNull THEN "error"
  ELSE IF page.data = JsNull THEN "not found"
  ELSE "data"

PageState(p) == <<p.data, p.error, p.loading>>

\* A load whose run of the effect has been cleaned up takes a step.
StaleStep(i) ==
  /\ i \in 1..Len(page.loads)
  /\ ~page.loads[i].isMounted
  /\ page'.loads[i] # page.loads[i]

ShowsLatest(p) ==
  LET latest == Len(p.loads)
  IN  /\ (p.mounted /\ ~p.loading /\ p.error # JsNull) => p.error.from = latest
      /\ (p.mounted /\ ~p.loading /\ p.error = JsNull /\ p.data # JsNull)
           => (p.data.from = latest /\ p.data.slug = p.loads[latest].slug)

\* C21: a step of a load whose run of the effect has been cleaned up (the
\* slug changed or the page was removed) leaves data, error and loading as
\* they were; and after every step the data or the error the page shows was
\* set by the load started last.
C21_StaleLoadIgnored ==
  [][/\ \A i \in 1..MaxLoads : StaleStep(i) => PageState(page') = PageState(page)
     /\ ShowsLatest(page')]_vars

\* The second load ended first and the first, cleaned up by then, ended
\* after it: the page shows the data of the second.
C21_Witness ==
  /\ page.kind = "page"
  /\ Len(page.loads) = 2
  /\ page.arrived = <<2, 1>>
  /\ page.loads[1].slug = "a"
  /\ page.loads[2].slug = "b"
  /\ Displayed = "data"
  /\ page.data.from = 2
  /\ page.data.slug = "b"
=============================================================================
